---- MODULE Spec2Model ----
(***************************************************************************)
(* Match lifecycle of the dog-dating service (dogs/utils.py, dogs/models.py)*)
(*                                                                         *)
(* The store is the Match table: a sequence of rows indexed by primary     *)
(* key.  Callers are request handlers / scripts that hold one in-memory    *)
(* Match instance each and call create_match, accept_match and             *)
(* decline_match.  Every database statement is one step; the Python code   *)
(* between two statements is folded into the step that follows it.         *)
(*                                                                         *)
(* Spec     : one caller; each call runs to completion on its own.         *)
(* SpecConc : two callers whose database statements interleave.            *)
(* SpecCreate : two callers racing in create_match, and the seeding script.*)
(* SpecRace : two callers racing in create_match and no other writer.      *)
(* SpecStore : one caller, the seeding script, and between the calls the   *)
(*            match queries.                                               *)
(* SpecHistory : one caller, the seeding script, and between the calls the *)
(*            candidate search.                                            *)
(*                                                                         *)
(* The Dog table holds the profiles.  calculate_dog_compatibility_score is *)
(* modelled twice from the same sub-score operators: step by step, each    *)
(* step reading the two fields it compares (SpecScore), and as one         *)
(* operator on two rows of the Dog table, as get_compatible_dogs calls it. *)
(*                                                                         *)
(* SpecScore   : the scorer on every pair of arguments within the bounds.  *)
(* SpecFind    : get_compatible_dogs over active and inactive profiles and *)
(*               seeded Match rows.                                        *)
(* SpecRank    : get_compatible_dogs over profiles of several ages and     *)
(*               sizes.                                                    *)
(* SpecThreshold : get_compatible_dogs over profiles at and above the      *)
(*               least score two profiles can have.                        *)
(* SpecService : the service functions (create / accept / decline for a    *)
(*               user) on top of create_match, accept_match, decline_match.*)
(***************************************************************************)
EXTENDS Integers, Sequences, FiniteSets, TLC

\* ---------------------------------------------------------------- bounds
NumDogs == 2
MaxMatches == 2
\* Profiles and Match rows in the store of the candidate search and of the
\* service functions.
NumProfiles == 3
MaxRows == 1
\* Oldest age and longest temperament text (in words) given to the scorer.
MaxAge == 9
MaxWords == 2

Dogs == 1..NumDogs

\* Caller 1 acts in every specification; caller 2 acts in SpecConc only.
Callers == {1, 2}

\* ------------------------------------------------------------ data model
\* Match.STATUS_CHOICES
STATUS_CHOICES == {"pending", "accepted", "declined"}

\* Dog.owner: the profiles alternate between two owners, so that with three
\* or more profiles some pairs share an owner.
Owner(d) == 1 + (d % 2)

\* auth.User rows; user 3 owns no profile.
Users == {1, 2, 3}

\* Dog.GENDER_CHOICES, Dog.SIZE_CHOICES, Dog.LOOKING_FOR_CHOICES
GENDER_CHOICES == {"M", "F"}
SIZE_CHOICES == {"S", "M", "L"}
LOOKING_FOR_CHOICES == {"playmate", "companion", "mate", "friendship"}

\* Dog.age is a PositiveIntegerField.
Ages == 0..MaxAge

\* Dog.breed is free text; str.lower() maps the first to the second.
Breeds == {"Labrador", "labrador", "Poodle"}

\* Dog.temperament is free text.  A text is the set of the words it is made
\* of (Russian, transliterated): no word below contains another one, so the
\* substring test of the scorer is a test on the words of the text.
Words == {"druzhelyubnyy", "Druzhelyubnyy", "druzhelyubnaya", "energichnyy",
          "aktivnyy", "spokoynyy"}
Texts == {t \in SUBSET Words : Cardinality(t) <= MaxWords}

\* A Dog row as the test fixtures create it (age 3, size M, playmate).
DefaultDog(d) ==
    [owner |-> Owner(d), is_active |-> TRUE, age |-> 3, size |-> "M",
     gender |-> "M", looking_for |-> "playmate", breed |-> "Labrador",
     temperament |-> {"druzhelyubnyy", "energichnyy"}]

\* The absent instance (Python None / no instance bound yet).
NoMatch == [id |-> 0, status |-> "none"]

VARIABLES
    matches,   \* Match table: matches[pk] = [dog_from, dog_to, status]
    pc,        \* pc[c]: where caller c is inside a call; "done" = the call has
               \* just completed and its result is in ret[c]; "idle" = between calls
    op,        \* op[c]: the call caller c is in or has just completed
    arg,       \* arg[c]: <<dog_from, dog_to>> of the create_match in progress
    obj,       \* obj[c]: the in-memory Match instance caller c holds (pk, status)
    rev,       \* rev[c]: the reverse_match instance read by accept_match
    ret,       \* ret[c]: result of the last completed call
    dogs,      \* Dog table: dogs[pk] = the profile's fields
    calc,      \* the locals of the calculate_dog_compatibility_score call in progress
    find,      \* the get_compatible_dogs call last made and the list it returned
    query      \* the match query last made (get_mutual_matches, get_pending_matches
               \* or get_match_statistics) and what it returned

vars == <<matches, pc, op, arg, obj, rev, ret, dogs, calc, find, query>>

Ids == DOMAIN matches

\* An in-memory instance of row i as the database holds it now.
Instance(i) == [id |-> i, status |-> matches[i].status]

\* Variant of First: the highest primary key (QuerySet.last()).
Last(S) == IF S = {} THEN 0 ELSE CHOOSE i \in S : \A j \in S : i >= j

\* QuerySet.first(): no ordering is declared on Match, so first() orders by
\* primary key and returns the lowest one, or None.
First(S) == IF S = {} THEN 0 ELSE CHOOSE i \in S : \A j \in S : i <= j

\* Caller c is not inside a call and may start one.
CanCall(c) == pc[c] \in {"idle", "done"}

\* ------------------------------------------------------------ create_match
\* Variant of ExistingMatch: the filter looks at the requested direction only.
ExistingMatchForwardOnly(a, b) ==
    First({i \in Ids : matches[i].dog_from = a /\ matches[i].dog_to = b})

\* Match.objects.filter(Q(dog_from=a, dog_to=b) | Q(dog_from=b, dog_to=a)).first()
ExistingMatch(a, b) ==
    First({i \in Ids : \/ (matches[i].dog_from = a /\ matches[i].dog_to = b)
                       \/ (matches[i].dog_from = b /\ matches[i].dog_to = a)})

\* Variant of UniqueTogether: the table has no uniqueness constraint.
NoUniqueTogether(a, b) == TRUE

\* Meta.unique_together = ["dog_from", "dog_to"]: may a row (a, b) be inserted?
UniqueTogether(a, b) ==
    ~ \E i \in Ids : matches[i].dog_from = a /\ matches[i].dog_to = b

\* Callers that passed the existence check and have not inserted yet.
Inserting == {c \in Callers : pc[c] = "insert"}

\* create_match, lines 177-182: the existence query and the early return.
CreateCheck(c, a, b) ==
    /\ CanCall(c)
    /\ ExistingMatch(a, b) # 0 \/ Len(matches) + Cardinality(Inserting) < MaxMatches
    /\ op' = [op EXCEPT ![c] = "create"]
    /\ rev' = [rev EXCEPT ![c] = NoMatch]
    /\ IF ExistingMatch(a, b) # 0
       THEN /\ obj' = [obj EXCEPT ![c] = Instance(ExistingMatch(a, b))]
            /\ ret' = [ret EXCEPT ![c] = "Match"]
            /\ arg' = [arg EXCEPT ![c] = <<a, b>>]
            /\ pc' = [pc EXCEPT ![c] = "done"]
       ELSE /\ obj' = [obj EXCEPT ![c] = NoMatch]
            /\ ret' = [ret EXCEPT ![c] = "none"]
            /\ arg' = [arg EXCEPT ![c] = <<a, b>>]
            /\ pc' = [pc EXCEPT ![c] = "insert"]
    /\ UNCHANGED matches
    /\ UNCHANGED <<dogs, calc, find, query>>

\* Variant of CreateInsert: the new row runs from dog_to to dog_from.
CreateInsertSwapped(c) ==
    /\ pc[c] = "insert"
    /\ pc' = [pc EXCEPT ![c] = "done"]
    /\ IF UniqueTogether(arg[c][2], arg[c][1])
       THEN /\ matches' = Append(matches, [dog_from |-> arg[c][2],
                                           dog_to |-> arg[c][1],
                                           status |-> "pending"])
            /\ obj' = [obj EXCEPT ![c] = [id |-> Len(matches) + 1,
                                          status |-> "pending"]]
            /\ ret' = [ret EXCEPT ![c] = "Match"]
       ELSE /\ ret' = [ret EXCEPT ![c] = "IntegrityError"]
            /\ UNCHANGED <<matches, obj>>
    /\ UNCHANGED <<op, arg, rev>>
    /\ UNCHANGED <<dogs, calc, find, query>>

\* create_match, lines 185-187: Match.objects.create(..., status="pending").
\* The database rejects a second row for the same ordered pair.
CreateInsert(c) ==
    /\ pc[c] = "insert"
    /\ pc' = [pc EXCEPT ![c] = "done"]
    /\ IF UniqueTogether(arg[c][1], arg[c][2])
       THEN /\ matches' = Append(matches, [dog_from |-> arg[c][1],
                                           dog_to |-> arg[c][2],
                                           status |-> "pending"])
            /\ obj' = [obj EXCEPT ![c] = [id |-> Len(matches) + 1,
                                          status |-> "pending"]]
            /\ ret' = [ret EXCEPT ![c] = "Match"]
       ELSE /\ ret' = [ret EXCEPT ![c] = "IntegrityError"]
            /\ UNCHANGED <<matches, obj>>
    /\ UNCHANGED <<op, arg, rev>>
    /\ UNCHANGED <<dogs, calc, find, query>>

\* ------------------------------------------------------------ seeding
\* populate_data.create_matches: Match.objects.get_or_create(dog_from, dog_to,
\* defaults={status: random}) for two distinct dogs of different owners.
PopulateMatch(a, b, st) ==
    /\ a # b
    /\ Owner(a) # Owner(b)
    /\ ~ \E i \in Ids : matches[i].dog_from = a /\ matches[i].dog_to = b
    /\ Len(matches) + Cardinality(Inserting) < MaxMatches
    /\ matches' = Append(matches, [dog_from |-> a, dog_to |-> b, status |-> st])
    /\ UNCHANGED <<pc, op, arg, obj, rev, ret>>
    /\ UNCHANGED <<dogs, calc, find, query>>

\* ------------------------------------------------------------ loading
\* A caller binds an instance of a stored row (Match.objects.get(pk=i)).
LoadMatch(c, i) ==
    /\ CanCall(c)
    /\ i \in Ids
    /\ obj' = [obj EXCEPT ![c] = Instance(i)]
    /\ pc' = [pc EXCEPT ![c] = "idle"]
    /\ op' = [op EXCEPT ![c] = "none"]
    /\ arg' = [arg EXCEPT ![c] = <<0, 0>>]
    /\ rev' = [rev EXCEPT ![c] = NoMatch]
    /\ ret' = [ret EXCEPT ![c] = "none"]
    /\ UNCHANGED matches
    /\ UNCHANGED <<dogs, calc, find, query>>

\* The call's result has been consumed: its locals go out of scope, the
\* instance stays bound in the caller.
Return(c) ==
    /\ pc[c] = "done"
    /\ pc' = [pc EXCEPT ![c] = "idle"]
    /\ op' = [op EXCEPT ![c] = "none"]
    /\ arg' = [arg EXCEPT ![c] = <<0, 0>>]
    /\ rev' = [rev EXCEPT ![c] = NoMatch]
    /\ ret' = [ret EXCEPT ![c] = "none"]
    /\ UNCHANGED <<matches, obj>>
    /\ UNCHANGED <<dogs, calc, find, query>>

\* ------------------------------------------------------------ accept_match
\* Variant of ReverseMatch: the filter names the match's own direction.
ReverseMatchSameDirection(i) ==
    First({j \in Ids : /\ matches[j].dog_from = matches[i].dog_from
                       /\ matches[j].dog_to = matches[i].dog_to})

\* Match.objects.filter(dog_from=match.dog_to, dog_to=match.dog_from).first()
ReverseMatch(i) ==
    First({j \in Ids : /\ matches[j].dog_from = matches[i].dog_to
                       /\ matches[j].dog_to = matches[i].dog_from})

\* Model.save(): UPDATE of the row with the instance's field values.
Save(m, inst) == [m EXCEPT ![inst.id].status = inst.status]

\* accept_match, lines 197-203: the status guard and the reverse query.
AcceptBegin(c) ==
    /\ CanCall(c)
    /\ obj[c] # NoMatch
    /\ op' = [op EXCEPT ![c] = "accept"]
    /\ arg' = [arg EXCEPT ![c] = <<0, 0>>]
    /\ IF obj[c].status # "pending"
       THEN /\ ret' = [ret EXCEPT ![c] = "False"]
            /\ rev' = [rev EXCEPT ![c] = NoMatch]
            /\ pc' = [pc EXCEPT ![c] = "done"]
       ELSE /\ ret' = [ret EXCEPT ![c] = "none"]
            /\ rev' = [rev EXCEPT ![c] =
                         IF ReverseMatch(obj[c].id) = 0 THEN NoMatch
                         ELSE Instance(ReverseMatch(obj[c].id))]
            /\ pc' = [pc EXCEPT ![c] = "acc_save"]
    /\ UNCHANGED <<matches, obj>>
    /\ UNCHANGED <<dogs, calc, find, query>>

\* Variant of AcceptSave: match.save() is left out.
AcceptSaveNoSave(c) ==
    /\ pc[c] = "acc_save"
    /\ obj' = [obj EXCEPT ![c].status = "accepted"]
    /\ matches' = matches
    /\ IF rev[c] # NoMatch /\ rev[c].status = "pending"
       THEN /\ rev' = [rev EXCEPT ![c].status = "accepted"]
            /\ pc' = [pc EXCEPT ![c] = "acc_rev"]
            /\ ret' = ret
       ELSE /\ rev' = [rev EXCEPT ![c] = NoMatch]
            /\ pc' = [pc EXCEPT ![c] = "done"]
            /\ ret' = [ret EXCEPT ![c] = "True"]
    /\ UNCHANGED <<op, arg>>
    /\ UNCHANGED <<dogs, calc, find, query>>

\* accept_match, lines 205-209 and 211-216: the branch on the reverse match
\* and match.save().  On the simple path reverse_match is not used again.
AcceptSave(c) ==
    /\ pc[c] = "acc_save"
    /\ obj' = [obj EXCEPT ![c].status = "accepted"]
    /\ matches' = Save(matches, obj'[c])
    /\ IF rev[c] # NoMatch /\ rev[c].status = "pending"
       THEN /\ rev' = [rev EXCEPT ![c].status = "accepted"]
            /\ pc' = [pc EXCEPT ![c] = "acc_rev"]
            /\ ret' = ret
       ELSE /\ rev' = [rev EXCEPT ![c] = NoMatch]
            /\ pc' = [pc EXCEPT ![c] = "done"]
            /\ ret' = [ret EXCEPT ![c] = "True"]
    /\ UNCHANGED <<op, arg>>
    /\ UNCHANGED <<dogs, calc, find, query>>

\* Variant of AcceptSaveReverse: reverse_match.save() is left out.
AcceptSaveReverseNoSave(c) ==
    /\ pc[c] = "acc_rev"
    /\ pc' = [pc EXCEPT ![c] = "done"]
    /\ ret' = [ret EXCEPT ![c] = "True"]
    /\ UNCHANGED <<matches, op, arg, obj, rev>>
    /\ UNCHANGED <<dogs, calc, find, query>>

\* accept_match, lines 210 and 216: reverse_match.save() and return True.
AcceptSaveReverse(c) ==
    /\ pc[c] = "acc_rev"
    /\ matches' = Save(matches, rev[c])
    /\ pc' = [pc EXCEPT ![c] = "done"]
    /\ ret' = [ret EXCEPT ![c] = "True"]
    /\ UNCHANGED <<op, arg, obj, rev>>
    /\ UNCHANGED <<dogs, calc, find, query>>

\* accept_match, line 210: reverse_match.save() raises (the statement cannot
\* be committed).  No transaction encloses the two saves, so the first one
\* stays committed and the exception propagates to the caller.
AcceptSaveReverseFails(c) ==
    /\ pc[c] = "acc_rev"
    /\ pc' = [pc EXCEPT ![c] = "done"]
    /\ ret' = [ret EXCEPT ![c] = "DatabaseError"]
    /\ UNCHANGED <<matches, op, arg, obj, rev>>
    /\ UNCHANGED <<dogs, calc, find, query>>

\* ------------------------------------------------------------ decline_match
\* Variant of DeclineMatch: the status guard is left out.
DeclineMatchNoGuard(c) ==
    /\ CanCall(c)
    /\ obj[c] # NoMatch
    /\ op' = [op EXCEPT ![c] = "decline"]
    /\ arg' = [arg EXCEPT ![c] = <<0, 0>>]
    /\ rev' = [rev EXCEPT ![c] = NoMatch]
    /\ pc' = [pc EXCEPT ![c] = "done"]
    /\ obj' = [obj EXCEPT ![c].status = "declined"]
    /\ matches' = Save(matches, obj'[c])
    /\ ret' = [ret EXCEPT ![c] = "True"]
    /\ UNCHANGED <<dogs, calc, find, query>>

\* Variant of DeclineMatch: a pending reverse match is declined as well.
DeclineMatchReciprocal(c) ==
    /\ CanCall(c)
    /\ obj[c] # NoMatch
    /\ op' = [op EXCEPT ![c] = "decline"]
    /\ arg' = [arg EXCEPT ![c] = <<0, 0>>]
    /\ rev' = [rev EXCEPT ![c] = NoMatch]
    /\ pc' = [pc EXCEPT ![c] = "done"]
    /\ IF obj[c].status # "pending"
       THEN /\ ret' = [ret EXCEPT ![c] = "False"]
            /\ UNCHANGED <<matches, obj>>
       ELSE /\ obj' = [obj EXCEPT ![c].status = "declined"]
            /\ matches' = [i \in Ids |->
                             IF \/ i = obj[c].id
                                \/ (i = ReverseMatch(obj[c].id)
                                    /\ matches[i].status = "pending")
                             THEN [matches[i] EXCEPT !.status = "declined"]
                             ELSE matches[i]]
            /\ ret' = [ret EXCEPT ![c] = "True"]
    /\ UNCHANGED <<dogs, calc, find, query>>

\* decline_match, lines 226-232.
DeclineMatch(c) ==
    /\ CanCall(c)
    /\ obj[c] # NoMatch
    /\ op' = [op EXCEPT ![c] = "decline"]
    /\ arg' = [arg EXCEPT ![c] = <<0, 0>>]
    /\ rev' = [rev EXCEPT ![c] = NoMatch]
    /\ pc' = [pc EXCEPT ![c] = "done"]
    /\ IF obj[c].status # "pending"
       THEN /\ ret' = [ret EXCEPT ![c] = "False"]
            /\ UNCHANGED <<matches, obj>>
       ELSE /\ obj' = [obj EXCEPT ![c].status = "declined"]
            /\ matches' = Save(matches, obj'[c])
            /\ ret' = [ret EXCEPT ![c] = "True"]
    /\ UNCHANGED <<dogs, calc, find, query>>

\* ------------------------------------- calculate_dog_compatibility_score
\* Scores are counted in half points, so that the 7.5 of the temperament
\* step is exact: Points(25) is 25 points, Points(15) \div 2 is 7.5 points.
Points(n) == 2 * n

\* abs()
Abs(n) == IF n < 0 THEN -n ELSE n

\* Variant of Min: the clamp returns its first argument.
MinNoClamp(a, b) == a

\* min()
Min(a, b) == IF a <= b THEN a ELSE b

\* str.lower() on the words and breeds of the model.
Lower(w) ==
    CASE w = "Labrador" -> "labrador"
      [] w = "Druzhelyubnyy" -> "druzhelyubnyy"
      [] OTHER -> w

\* Variant of SameDog: the self-comparison test is left out.
SameDogNever(id1, id2) == FALSE

\* Line 19: dog1.id == dog2.id
SameDog(id1, id2) == id1 = id2

\* Variant of AgeScore: the tiers are compared with < in place of <=.
AgeScoreStrict(age1, age2) ==
    LET age_diff == Abs(age1 - age2)
    IN  IF age_diff < 1 THEN Points(25)
        ELSE IF age_diff < 3 THEN Points(20)
        ELSE IF age_diff < 5 THEN Points(15)
        ELSE IF age_diff < 8 THEN Points(10)
        ELSE Points(5)

\* Lines 26-36: age compatibility.
AgeScore(age1, age2) ==
    LET age_diff == Abs(age1 - age2)
    IN  IF age_diff <= 1 THEN Points(25)
        ELSE IF age_diff <= 3 THEN Points(20)
        ELSE IF age_diff <= 5 THEN Points(15)
        ELSE IF age_diff <= 8 THEN Points(10)
        ELSE Points(5)

\* Lines 39-50: size_compatibility.get((dog1.size, dog2.size), 10)
size_compatibility(size1, size2) ==
    LET table == (<<"S", "S">> :> 20) @@ (<<"S", "M">> :> 15) @@ (<<"S", "L">> :> 5)
              @@ (<<"M", "S">> :> 15) @@ (<<"M", "M">> :> 20) @@ (<<"M", "L">> :> 15)
              @@ (<<"L", "S">> :> 5) @@ (<<"L", "M">> :> 15) @@ (<<"L", "L">> :> 20)
    IN  IF <<size1, size2>> \in DOMAIN table
        THEN Points(table[<<size1, size2>>])
        ELSE Points(10)

\* Lines 53-56: gender compatibility.
GenderScore(gender1, gender2) ==
    IF gender1 # gender2 THEN Points(15) ELSE Points(10)

\* Variant of compatible_goals: a pair that is not in the table scores 0.
compatible_goals_default_0(goal1, goal2) ==
    LET table == (<<"playmate", "playmate">> :> 20)
              @@ (<<"companion", "companion">> :> 20)
              @@ (<<"mate", "mate">> :> 20)
              @@ (<<"friendship", "friendship">> :> 20)
              @@ (<<"playmate", "companion">> :> 15)
              @@ (<<"companion", "playmate">> :> 15)
              @@ (<<"playmate", "friendship">> :> 15)
              @@ (<<"friendship", "playmate">> :> 15)
              @@ (<<"companion", "friendship">> :> 15)
              @@ (<<"friendship", "companion">> :> 15)
    IN  IF <<goal1, goal2>> \in DOMAIN table
        THEN Points(table[<<goal1, goal2>>])
        ELSE 0

\* Lines 59-71: compatible_goals.get((dog1.looking_for, dog2.looking_for), 10)
compatible_goals(goal1, goal2) ==
    LET table == (<<"playmate", "playmate">> :> 20)
              @@ (<<"companion", "companion">> :> 20)
              @@ (<<"mate", "mate">> :> 20)
              @@ (<<"friendship", "friendship">> :> 20)
              @@ (<<"playmate", "companion">> :> 15)
              @@ (<<"companion", "playmate">> :> 15)
              @@ (<<"playmate", "friendship">> :> 15)
              @@ (<<"friendship", "playmate">> :> 15)
              @@ (<<"companion", "friendship">> :> 15)
              @@ (<<"friendship", "companion">> :> 15)
    IN  IF <<goal1, goal2>> \in DOMAIN table
        THEN Points(table[<<goal1, goal2>>])
        ELSE Points(10)

\* Lines 74-75: the bonus for the same breed.
BreedScore(breed1, breed2) ==
    IF Lower(breed1) = Lower(breed2) THEN Points(5) ELSE 0

\* Lines 78-98: temperament_keywords, canonical word -> its surface forms.
temperament_keywords ==
    [druzhelyubnyy |-> {"druzhelyubnyy", "druzhelyubnaya", "obshchitelnyy",
                        "obshchitelnaya"},
     energichnyy |-> {"energichnyy", "energichnaya", "aktivnyy", "aktivnaya",
                      "igrivyy", "igrivaya"},
     spokoynyy |-> {"spokoynyy", "spokoynaya", "mirnyy", "mirnaya",
                    "uravnoveshennyy", "uravnoveshennaya"},
     zashchitnyy |-> {"zashchitnyy", "zashchitnaya", "storozhevoy",
                      "storozhevaya"},
     poslushnyy |-> {"poslushnyy", "poslushnaya", "upravlyaemyy",
                     "upravlyaemaya"}]

\* temperament_keywords.keys(), in the order the loops visit them.
Keys == <<"druzhelyubnyy", "energichnyy", "spokoynyy", "zashchitnyy",
          "poslushnyy">>

\* Lines 102 and 104: word in dog.temperament.lower()
InText(word, text) == \E w \in text : Lower(w) = word

\* Variant of PairScore: the affinity counts in one direction only.
PairScoreOneWay(dog1_word, dog2_word) ==
    IF dog1_word = dog2_word THEN Points(15) \div 2
    ELSE IF /\ dog1_word = "druzhelyubnyy"
            /\ dog2_word = "energichnyy"
         THEN Points(5)
         ELSE 0

\* Lines 105-111: what one pair of words adds to temperament_score.
PairScore(dog1_word, dog2_word) ==
    IF dog1_word = dog2_word THEN Points(15) \div 2
    ELSE IF /\ dog1_word \in {"druzhelyubnyy", "energichnyy"}
            /\ dog2_word \in {"druzhelyubnyy", "energichnyy"}
         THEN Points(5)
         ELSE 0

\* Lines 103-111: the inner loop, from the j-th key on.
RECURSIVE InnerLoop(_, _, _)
InnerLoop(dog1_word, text2, j) ==
    IF j > Len(Keys) THEN 0
    ELSE (IF InText(Keys[j], text2) THEN PairScore(dog1_word, Keys[j]) ELSE 0)
         + InnerLoop(dog1_word, text2, j + 1)

\* Lines 100-111: the outer loop, from the i-th key on.
RECURSIVE OuterLoop(_, _, _)
OuterLoop(text1, text2, i) ==
    IF i > Len(Keys) THEN 0
    ELSE (IF InText(Keys[i], text1) THEN InnerLoop(Keys[i], text2, 1) ELSE 0)
         + OuterLoop(text1, text2, i + 1)

\* Lines 100-111: temperament_score after both loops.
TemperamentScore(text1, text2) == OuterLoop(text1, text2, 1)

\* Line 23.
max_score == Points(100)

\* The scorer between calls.
NoCalc == [pc |-> "idle", in1 |-> 0, in2 |-> 0, score |-> 0,
           temperament_score |-> 0]

\* Lines 19-23: the self-comparison short-circuit on the primary keys of the
\* two arguments: return 0, or score = 0 and go on.
ScoreBegin(id1, id2) ==
    /\ calc.pc = "idle"
    /\ calc' = IF SameDog(id1, id2)
               THEN [NoCalc EXCEPT !.pc = "done", !.in1 = id1, !.in2 = id2]
               ELSE [NoCalc EXCEPT !.pc = "age", !.in1 = id1, !.in2 = id2]
    /\ UNCHANGED <<matches, pc, op, arg, obj, rev, ret, dogs, find, query>>

\* One step of the sum: the two fields read (in1 from dog1, in2 from dog2)
\* and the points they add.
ScoreStep(from, to, v1, v2, points) ==
    /\ calc.pc = from
    /\ calc' = [calc EXCEPT !.pc = to, !.in1 = v1, !.in2 = v2,
                            !.score = calc.score + points]
    /\ UNCHANGED <<matches, pc, op, arg, obj, rev, ret, dogs, find, query>>

\* Lines 26-36.
ScoreAge(age1, age2) ==
    ScoreStep("age", "size", age1, age2, AgeScore(age1, age2))

\* Lines 39-50.
ScoreSize(size1, size2) ==
    ScoreStep("size", "gender", size1, size2, size_compatibility(size1, size2))

\* Lines 53-56.
ScoreGender(gender1, gender2) ==
    ScoreStep("gender", "goal", gender1, gender2, GenderScore(gender1, gender2))

\* Lines 59-71.
ScoreGoal(goal1, goal2) ==
    ScoreStep("goal", "breed", goal1, goal2, compatible_goals(goal1, goal2))

\* Lines 74-75.
ScoreBreed(breed1, breed2) ==
    ScoreStep("breed", "temperament", breed1, breed2, BreedScore(breed1, breed2))

\* Lines 100-111: the two loops over the keywords.
ScoreTemperament(text1, text2) ==
    /\ calc.pc = "temperament"
    /\ calc' = [calc EXCEPT !.pc = "total", !.in1 = text1, !.in2 = text2,
                  !.temperament_score = TemperamentScore(text1, text2)]
    /\ UNCHANGED <<matches, pc, op, arg, obj, rev, ret, dogs, find, query>>

\* Lines 113-115: score += min(temperament_score, 15); return min(score, max_score)
ScoreTotal ==
    /\ calc.pc = "total"
    /\ calc' = [calc EXCEPT !.pc = "done",
                  !.score = Min(calc.score + Min(calc.temperament_score, Points(15)),
                                max_score)]
    /\ UNCHANGED <<matches, pc, op, arg, obj, rev, ret, dogs, find, query>>

\* The caller has taken the returned score.
ScoreReturn ==
    /\ calc.pc = "done"
    /\ calc' = NoCalc
    /\ UNCHANGED <<matches, pc, op, arg, obj, rev, ret, dogs, find, query>>

\* calculate_dog_compatibility_score(dog1, dog2) on two rows of the Dog table.
calculate_dog_compatibility_score(d1, d2) ==
    IF SameDog(d1, d2) THEN 0
    ELSE Min(AgeScore(dogs[d1].age, dogs[d2].age)
             + size_compatibility(dogs[d1].size, dogs[d2].size)
             + GenderScore(dogs[d1].gender, dogs[d2].gender)
             + compatible_goals(dogs[d1].looking_for, dogs[d2].looking_for)
             + BreedScore(dogs[d1].breed, dogs[d2].breed)
             + Min(TemperamentScore(dogs[d1].temperament, dogs[d2].temperament),
                   Points(15)),
             max_score)

\* ------------------------------------------------------ get_compatible_dogs
\* The search between calls.
NoFind == [pc |-> "idle", user_dog |-> 0, exclude_matches |-> FALSE,
           result |-> << >>]

\* max()
Max(a, b) == IF a >= b THEN a ELSE b

\* Dog.Meta.ordering = ["-created_at"]: a queryset lists the newest profile
\* first; profiles are created in the order of their primary keys.
RECURSIVE Listing(_)
Listing(S) ==
    IF S = {} THEN << >>
    ELSE LET newest == CHOOSE d \in S : \A e \in S : d >= e
         IN  <<newest>> \o Listing(S \ {newest})

\* Variant of MatchedDogIds: only the matches sent by user_dog are read.
MatchedDogIdsSent(q) ==
    {matches[i].dog_to : i \in {j \in Ids : matches[j].dog_from = q}}

\* Lines 142-151: the other end of every match of user_dog.
MatchedDogIds(q) ==
    {IF matches[i].dog_from = q THEN matches[i].dog_to ELSE matches[i].dog_from :
        i \in {j \in Ids : matches[j].dog_from = q \/ matches[j].dog_to = q}}

\* Variant of CompatibleDogs: age__lte is left out of the filter.
CompatibleDogsNoUpper(q, exclude_matches) ==
    {d \in DOMAIN dogs :
        /\ dogs[d].is_active
        /\ d # q
        /\ dogs[d].owner # dogs[q].owner
        /\ dogs[d].age >= Max(0, dogs[q].age - 10)
        /\ exclude_matches => d \notin MatchedDogIds(q)}

\* Lines 130-153: the queryset after the filters.
CompatibleDogs(q, exclude_matches) ==
    {d \in DOMAIN dogs :
        /\ dogs[d].is_active
        /\ d # q
        /\ dogs[d].owner # dogs[q].owner
        /\ dogs[d].age >= Max(0, dogs[q].age - 10)
        /\ dogs[d].age <= dogs[q].age + 10
        /\ exclude_matches => d \notin MatchedDogIds(q)}

\* Variant of WithScores: a score of exactly 30 is dropped.
RECURSIVE WithScoresStrict(_, _)
WithScoresStrict(q, listing) ==
    IF listing = << >> THEN << >>
    ELSE LET dog == Head(listing)
             score == calculate_dog_compatibility_score(q, dog)
         IN  (IF score > Points(30) THEN <<[dog |-> dog, score |-> score]>>
              ELSE << >>) \o WithScoresStrict(q, Tail(listing))

\* Lines 156-160: the (dog, score) pairs at or above the threshold, in the
\* order of the queryset.
RECURSIVE WithScores(_, _)
WithScores(q, listing) ==
    IF listing = << >> THEN << >>
    ELSE LET dog == Head(listing)
             score == calculate_dog_compatibility_score(q, dog)
         IN  (IF score >= Points(30) THEN <<[dog |-> dog, score |-> score]>>
              ELSE << >>) \o WithScores(q, Tail(listing))

\* Variant of InsertByScore: a pair goes in front of the pairs of equal score.
InsertBeforeTies(x, sorted) ==
    LET k == Cardinality({i \in DOMAIN sorted : sorted[i].score > x.score})
    IN  SubSeq(sorted, 1, k) \o <<x>> \o SubSeq(sorted, k + 1, Len(sorted))

\* list.sort(key=score, reverse=True) is stable: a pair goes behind every
\* pair whose score is greater or equal.
InsertByScore(x, sorted) ==
    LET k == Cardinality({i \in DOMAIN sorted : sorted[i].score >= x.score})
    IN  SubSeq(sorted, 1, k) \o <<x>> \o SubSeq(sorted, k + 1, Len(sorted))

\* Line 163: compatible_dogs_with_scores.sort(key=lambda x: x[1], reverse=True)
RECURSIVE SortByScore(_)
SortByScore(pairs) ==
    IF pairs = << >> THEN << >>
    ELSE InsertByScore(pairs[Len(pairs)],
                       SortByScore(SubSeq(pairs, 1, Len(pairs) - 1)))

\* Line 166: [dog for dog, score in compatible_dogs_with_scores]
DogsOf(pairs) == [i \in DOMAIN pairs |-> pairs[i].dog]

\* Lines 130-166: the list get_compatible_dogs returns in the present store.
get_compatible_dogs(q, exclude_matches) ==
    DogsOf(SortByScore(WithScores(q,
        Listing(CompatibleDogs(q, exclude_matches)))))

\* get_compatible_dogs(user_dog, exclude_matches) is called and returns.
GetCompatibleDogs(q, exclude_matches) ==
    /\ find.pc = "idle"
    /\ find' = [pc |-> "done", user_dog |-> q,
                exclude_matches |-> exclude_matches,
                result |-> get_compatible_dogs(q, exclude_matches)]
    /\ UNCHANGED <<matches, pc, op, arg, obj, rev, ret, dogs, calc, query>>

\* The caller has taken the returned list.
FindReturn ==
    /\ find.pc = "done"
    /\ find' = NoFind
    /\ UNCHANGED <<matches, pc, op, arg, obj, rev, ret, dogs, calc, query>>

\* populate_data.create_matches in the store of the candidate search.
SeedRow(a, b, st) ==
    /\ Len(matches) < MaxRows
    /\ find.pc = "idle"
    /\ PopulateMatch(a, b, st)

\* ------------------------------------------------------------ match queries
\* No match query between calls.
NoQuery == [pc |-> "idle", call |-> "none", user |-> 0, result |-> {}]

\* The Match rows whose from-profile or to-profile is owned by user and whose
\* status is st: a queryset over Match, every row at most once.
OwnedWithStatus(user, st) ==
    {i \in Ids : /\ \/ dogs[matches[i].dog_from].owner = user
                    \/ dogs[matches[i].dog_to].owner = user
                 /\ matches[i].status = st}

\* Variant of get_mutual_matches: only the matches the user's profiles sent.
get_mutual_matches_sent(user) ==
    {i \in Ids : /\ dogs[matches[i].dog_from].owner = user
                 /\ matches[i].status = "accepted"}

\* Lines 235-244.
get_mutual_matches(user) == OwnedWithStatus(user, "accepted")

\* Lines 247-256.
get_pending_matches(user) == OwnedWithStatus(user, "pending")

\* Variant of get_match_statistics: accepted and declined are counted on the
\* from-side and on the to-side and added.
get_match_statistics_both_sides(user) ==
    LET user_dog_ids == {d \in DOMAIN dogs : dogs[d].owner = user}
        Sent(st) == Cardinality({i \in Ids : /\ matches[i].dog_from \in user_dog_ids
                                             /\ matches[i].status = st})
        Received(st) == Cardinality({i \in Ids : /\ matches[i].dog_to \in user_dog_ids
                                                 /\ matches[i].status = st})
    IN  IF user_dog_ids = {}
        THEN [pending_sent |-> 0, pending_received |-> 0, accepted |-> 0,
              declined |-> 0, total |-> 0]
        ELSE [pending_sent |-> Sent("pending"),
              pending_received |-> Received("pending"),
              accepted |-> Sent("accepted") + Received("accepted"),
              declined |-> Sent("declined") + Received("declined"),
              total |-> Sent("pending") + Received("pending")
                        + Sent("accepted") + Received("accepted")
                        + Sent("declined") + Received("declined")]

\* Lines 259-300.
get_match_statistics(user) ==
    LET user_dog_ids == {d \in DOMAIN dogs : dogs[d].owner = user}
        pending_sent ==
            Cardinality({i \in Ids : /\ matches[i].dog_from \in user_dog_ids
                                     /\ matches[i].status = "pending"})
        pending_received ==
            Cardinality({i \in Ids : /\ matches[i].dog_to \in user_dog_ids
                                     /\ matches[i].status = "pending"})
        accepted ==
            Cardinality({i \in Ids : /\ \/ matches[i].dog_from \in user_dog_ids
                                        \/ matches[i].dog_to \in user_dog_ids
                                     /\ matches[i].status = "accepted"})
        declined ==
            Cardinality({i \in Ids : /\ \/ matches[i].dog_from \in user_dog_ids
                                        \/ matches[i].dog_to \in user_dog_ids
                                     /\ matches[i].status = "declined"})
    IN  IF user_dog_ids = {}
        THEN [pending_sent |-> 0, pending_received |-> 0, accepted |-> 0,
              declined |-> 0, total |-> 0]
        ELSE [pending_sent |-> pending_sent,
              pending_received |-> pending_received,
              accepted |-> accepted,
              declined |-> declined,
              total |-> pending_sent + pending_received + accepted + declined]

\* A match query is called and returns.
Query(call, user, result) ==
    /\ query.pc = "idle"
    /\ query' = [pc |-> "done", call |-> call, user |-> user, result |-> result]
    /\ UNCHANGED <<matches, pc, op, arg, obj, rev, ret, dogs, calc, find>>

GetMutualMatches(user) == Query("mutual", user, get_mutual_matches(user))

GetPendingMatches(user) == Query("pending", user, get_pending_matches(user))

GetMatchStatistics(user) == Query("statistics", user, get_match_statistics(user))

\* The caller has taken what the query returned.
QueryReturn ==
    /\ query.pc = "done"
    /\ query' = NoQuery
    /\ UNCHANGED <<matches, pc, op, arg, obj, rev, ret, dogs, calc, find>>

\* --------------------------------------------------- services.match_service
\* The primary keys a request may name: those of the Dog table and one that
\* no row has.
DogIds == 1..(NumProfiles + 1)

\* Dog.objects.get(id=dog_id, is_active=True) finds a row.
ActiveDog(id) == id \in DOMAIN dogs /\ dogs[id].is_active

\* The user owns the from-profile or the to-profile of row i.
OwnsMatch(user, i) ==
    \/ dogs[matches[i].dog_from].owner = user
    \/ dogs[matches[i].dog_to].owner = user

\* The call of caller c ends with an exception; nothing is written.
Raise(c, name, from_id, to_id, exception) ==
    /\ pc' = [pc EXCEPT ![c] = "done"]
    /\ op' = [op EXCEPT ![c] = name]
    /\ arg' = [arg EXCEPT ![c] = <<from_id, to_id>>]
    /\ rev' = [rev EXCEPT ![c] = NoMatch]
    /\ ret' = [ret EXCEPT ![c] = exception]
    /\ UNCHANGED <<matches, obj, dogs, calc, find, query>>

\* create_match_for_user(user, from_id, to_id): the checks, then create_match.
CreateMatchForUser(c, user, from_id, to_id) ==
    /\ pc[c] = "idle"
    /\ IF \/ ~ ActiveDog(from_id)
          \/ dogs[from_id].owner # user
          \/ from_id = to_id
       THEN Raise(c, "create", from_id, to_id, "PermissionDenied")
       ELSE IF ~ ActiveDog(to_id)
       THEN Raise(c, "create", from_id, to_id, "DoesNotExist")
       ELSE IF dogs[to_id].owner = dogs[from_id].owner
       THEN Raise(c, "create", from_id, to_id, "PermissionDenied")
       ELSE /\ ExistingMatch(from_id, to_id) # 0 \/ Len(matches) < MaxRows
            /\ CreateCheck(c, from_id, to_id)

\* accept_match_for_user(user, match): the ownership check, then accept_match.
AcceptMatchForUser(c, user) ==
    /\ pc[c] = "idle"
    /\ obj[c] # NoMatch
    /\ IF OwnsMatch(user, obj[c].id)
       THEN AcceptBegin(c)
       ELSE Raise(c, "accept", 0, 0, "PermissionDenied")

\* decline_match_for_user(user, match): the ownership check, then decline_match.
DeclineMatchForUser(c, user) ==
    /\ pc[c] = "idle"
    /\ obj[c] # NoMatch
    /\ IF OwnsMatch(user, obj[c].id)
       THEN DeclineMatch(c)
       ELSE Raise(c, "decline", 0, 0, "PermissionDenied")

\* ------------------------------------------------------------ specifications
\* The Match side of the store before any call.
InitMatches ==
    /\ matches = << >>
    /\ pc = [c \in Callers |-> "idle"]
    /\ op = [c \in Callers |-> "none"]
    /\ arg = [c \in Callers |-> <<0, 0>>]
    /\ obj = [c \in Callers |-> NoMatch]
    /\ rev = [c \in Callers |-> NoMatch]
    /\ ret = [c \in Callers |-> "none"]
    /\ calc = NoCalc
    /\ find = NoFind
    /\ query = NoQuery

\* No Match row, no call in progress, every profile as the fixtures make it.
Init ==
    /\ InitMatches
    /\ dogs = [d \in Dogs |-> DefaultDog(d)]

\* One step of caller c.
Step(c) ==
    \/ \E a, b \in Dogs : CreateCheck(c, a, b)
    \/ CreateInsert(c)
    \/ \E i \in Ids : LoadMatch(c, i)
    \/ AcceptBegin(c)
    \/ AcceptSave(c)
    \/ AcceptSaveReverse(c)
    \/ AcceptSaveReverseFails(c)
    \/ DeclineMatch(c)
    \/ Return(c)

Seed == \E a, b \in Dogs, st \in STATUS_CHOICES : PopulateMatch(a, b, st)

\* One caller: every call runs to completion on its own, the seeding script
\* runs between calls.
Next ==
    \/ Step(1)
    \/ CanCall(1) /\ Seed

\* Two callers: their database statements and those of the seeding script
\* interleave.
NextConc ==
    \/ \E c \in Callers : Step(c)
    \/ Seed

\* Two callers inside create_match at the same time, next to the seeding
\* script: every statement that inserts a row.
NextCreate ==
    \/ \E c \in Callers : \E a, b \in Dogs : CreateCheck(c, a, b)
    \/ \E c \in Callers : CreateInsert(c)
    \/ \E c \in Callers : Return(c)
    \/ Seed

\* Two callers inside create_match at the same time and no other writer.
NextRace ==
    \/ \E c \in Callers : \E a, b \in Dogs : CreateCheck(c, a, b)
    \/ \E c \in Callers : CreateInsert(c)
    \/ \E c \in Callers : Return(c)

Spec == Init /\ [][Next]_vars

SpecRace == Init /\ [][NextRace]_vars

SpecCreate == Init /\ [][NextCreate]_vars

SpecConc == Init /\ [][NextConc]_vars

\* No search and no match query is waiting for its caller.
Quiet == find.pc = "idle" /\ query.pc = "idle"

\* One caller and the seeding script; between two calls the match queries
\* run on the store.
NextStore ==
    \/ Quiet /\ Step(1)
    \/ Quiet /\ CanCall(1) /\ Seed
    \/ Quiet /\ pc[1] = "idle" /\ \E user \in Users : GetMutualMatches(user)
    \/ Quiet /\ pc[1] = "idle" /\ \E user \in Users : GetPendingMatches(user)
    \/ Quiet /\ pc[1] = "idle" /\ \E user \in Users : GetMatchStatistics(user)
    \/ QueryReturn

SpecStore == Init /\ [][NextStore]_vars

\* One caller and the seeding script; between two calls the candidate search
\* runs on the store.
NextHistory ==
    \/ Quiet /\ Step(1)
    \/ Quiet /\ CanCall(1) /\ Seed
    \/ Quiet /\ pc[1] = "idle" /\ \E q \in Dogs : GetCompatibleDogs(q, TRUE)
    \/ FindReturn

SpecHistory == Init /\ [][NextHistory]_vars

\* The scorer on its own: every pair of arguments within the bounds.
NextScore ==
    \/ \E id1, id2 \in Dogs : ScoreBegin(id1, id2)
    \/ \E age1, age2 \in Ages : ScoreAge(age1, age2)
    \/ \E size1, size2 \in SIZE_CHOICES : ScoreSize(size1, size2)
    \/ \E gender1, gender2 \in GENDER_CHOICES : ScoreGender(gender1, gender2)
    \/ \E goal1, goal2 \in LOOKING_FOR_CHOICES : ScoreGoal(goal1, goal2)
    \/ \E breed1, breed2 \in Breeds : ScoreBreed(breed1, breed2)
    \/ \E text1, text2 \in Texts : ScoreTemperament(text1, text2)
    \/ ScoreTotal
    \/ ScoreReturn

SpecScore == Init /\ [][NextScore]_vars

Profiles == 1..NumProfiles

\* The candidate search over a store whose profiles are active or not and
\* whose Match rows come from the seeding script.
InitFind ==
    /\ InitMatches
    /\ dogs \in {[d \in Profiles |-> [DefaultDog(d) EXCEPT !.is_active = active[d]]] :
                    active \in [Profiles -> BOOLEAN]}

NextFind ==
    \/ \E q \in Profiles, exclude_matches \in BOOLEAN :
          GetCompatibleDogs(q, exclude_matches)
    \/ FindReturn
    \/ \E a, b \in Profiles, st \in STATUS_CHOICES : SeedRow(a, b, st)

SpecFind == InitFind /\ [][NextFind]_vars

\* The ages and sizes of the profiles of the ranking.
RankAges == {3, 6, 15}

\* The candidate search over a store of active profiles of several ages and
\* sizes and no Match row.
InitRank ==
    /\ InitMatches
    /\ dogs \in {[d \in Profiles |-> [DefaultDog(d) EXCEPT !.age = age[d],
                                                          !.size = size[d]]] :
                    age \in [Profiles -> RankAges],
                    size \in [Profiles -> SIZE_CHOICES]}

NextRank ==
    \/ \E q \in Profiles, exclude_matches \in BOOLEAN :
          GetCompatibleDogs(q, exclude_matches)
    \/ FindReturn

SpecRank == InitRank /\ [][NextRank]_vars

\* Two profiles that have as little in common as two profiles can have inside
\* the age window, and the profile of the fixtures.
SmallDog(d) ==
    [DefaultDog(d) EXCEPT !.size = "S", !.looking_for = "mate",
                          !.breed = "Poodle", !.temperament = {}]

LargeDog(d) ==
    [DefaultDog(d) EXCEPT !.age = 12, !.size = "L",
                          !.temperament = {"spokoynyy"}]

\* The candidate search over a store of active profiles, each of them one of
\* the three above, and no Match row.
InitThreshold ==
    /\ InitMatches
    /\ dogs \in {[d \in Profiles |-> CASE kind[d] = "small" -> SmallDog(d)
                                      [] kind[d] = "large" -> LargeDog(d)
                                      [] OTHER -> DefaultDog(d)] :
                    kind \in [Profiles -> {"default", "small", "large"}]}

SpecThreshold == InitThreshold /\ [][NextRank]_vars

\* create_match on two profiles of a store that holds at most MaxRows rows.
CreateMatchInStore(c, a, b) ==
    /\ ExistingMatch(a, b) # 0 \/ Len(matches) < MaxRows
    /\ CreateCheck(c, a, b)

\* A store in which one owner has two profiles.
InitOwners ==
    /\ InitMatches
    /\ dogs = [d \in Profiles |-> DefaultDog(d)]

\* One caller on that store (no row has a reverse row there), and between two
\* calls get_match_statistics.
NextOwners ==
    \/ Quiet /\ \E a, b \in Profiles : CreateMatchInStore(1, a, b)
    \/ Quiet /\ CreateInsert(1)
    \/ Quiet /\ \E i \in Ids : LoadMatch(1, i)
    \/ Quiet /\ AcceptBegin(1)
    \/ Quiet /\ AcceptSave(1)
    \/ Quiet /\ DeclineMatch(1)
    \/ Quiet /\ Return(1)
    \/ Quiet /\ pc[1] = "idle" /\ \E user \in Users : GetMatchStatistics(user)
    \/ QueryReturn

SpecOwners == InitOwners /\ [][NextOwners]_vars

\* The service functions, called by one request at a time; a request makes
\* one call and returns.
InitService ==
    /\ InitMatches
    /\ dogs \in {[d \in Profiles |-> [DefaultDog(d) EXCEPT !.is_active = active[d]]] :
                    active \in [Profiles -> BOOLEAN]}

NextService ==
    \/ \E user \in Users, from_id, to_id \in DogIds :
          CreateMatchForUser(1, user, from_id, to_id)
    \/ CreateInsert(1)
    \/ \E i \in Ids : LoadMatch(1, i)
    \/ \E user \in Users : AcceptMatchForUser(1, user)
    \/ AcceptSave(1)
    \/ \E user \in Users : DeclineMatchForUser(1, user)
    \/ Return(1)

SpecService == InitService /\ [][NextService]_vars

\* ------------------------------------------------------------ properties
Terminal == {"accepted", "declined"}

\* Rows from a to b.
Directed(a, b) == {i \in Ids : matches[i].dog_from = a /\ matches[i].dog_to = b}

\* Rows that are the reverse direction of row i.
ReverseOf(i) == Directed(matches[i].dog_to, matches[i].dog_from)

\* Row i has a stored reverse row whose stored status is pending.
HasPendingReverse(i) == \E j \in ReverseOf(i) : matches[j].status = "pending"

\* C1: accept_match on a pending match whose reverse match exists and is
\* pending takes the mutual branch and, when it returns, has returned True
\* with both rows stored as accepted.
C1_AcceptMutual ==
    [][\A c \in Callers :
         /\ (pc[c] = "acc_save" /\ HasPendingReverse(obj[c].id) /\ pc'[c] # "acc_save")
               => pc'[c] = "acc_rev"
         /\ (pc[c] = "acc_rev" /\ pc'[c] = "done" /\ ret'[c] # "DatabaseError")
               => /\ ret'[c] = "True"
                  /\ matches'[obj[c].id].status = "accepted"
                  /\ \A j \in ReverseOf(obj[c].id) : matches'[j].status = "accepted"
      ]_vars

\* C1 witness: a mutual acceptance of two distinct rows has returned True.
C1_Witness ==
    \E c \in Callers :
        /\ pc[c] = "done" /\ op[c] = "accept" /\ ret[c] = "True"
        /\ rev[c] # NoMatch /\ rev[c].id # obj[c].id
        /\ rev[c].id \in ReverseOf(obj[c].id)
        /\ matches[obj[c].id].status = "accepted"
        /\ matches[rev[c].id].status = "accepted"

\* C2: accept_match on a pending match with no reverse row, or with a reverse
\* row that is accepted or declined, returns True and changes nothing but the
\* status of that one row, which becomes accepted.
C2_AcceptSimple ==
    [][\A c \in Callers :
         (pc[c] = "acc_save" /\ ~HasPendingReverse(obj[c].id) /\ pc'[c] # "acc_save")
            => /\ pc'[c] = "done"
               /\ ret'[c] = "True"
               /\ matches' = [matches EXCEPT ![obj[c].id].status = "accepted"]
      ]_vars

\* C2 witness: a simple acceptance has returned True next to a reverse row
\* that is still declined.
C2_Witness ==
    \E c \in Callers :
        /\ pc[c] = "done" /\ op[c] = "accept" /\ ret[c] = "True"
        /\ rev[c] = NoMatch
        /\ matches[obj[c].id].status = "accepted"
        /\ \E j \in ReverseOf(obj[c].id) : j # obj[c].id /\ matches[j].status = "declined"

\* C3: accept_match and decline_match on an instance whose status is accepted
\* or declined return False and leave the whole table unchanged.
C3_TerminalNoop ==
    [][\A c \in Callers :
         ((AcceptBegin(c) \/ DeclineMatch(c)) /\ obj[c].status \in Terminal)
            => (pc'[c] = "done" /\ ret'[c] = "False" /\ matches' = matches)
      ]_vars

\* C3 witness: a call on a terminal instance has returned False.
C3_Witness ==
    \E c \in Callers :
        /\ pc[c] = "done" /\ op[c] \in {"accept", "decline"} /\ ret[c] = "False"
        /\ obj[c].status \in Terminal
        /\ matches[obj[c].id].status = obj[c].status

\* C4: once the stored status of a row is accepted or declined, no later step
\* changes it.
C4_TerminalIsFinal ==
    [][\A i \in Ids :
         matches[i].status \in Terminal => matches'[i].status = matches[i].status
      ]_vars

\* C5: no state that another caller can observe has one direction stored as
\* accepted by a reconciliation whose reverse row is still stored as pending,
\* neither while the reconciliation is under way nor after its second write
\* failed.
C5_AtomicReconciliation ==
    \A c \in Callers :
        (/\ \/ pc[c] = "acc_rev"
            \/ (pc[c] = "done" /\ op[c] = "accept" /\ ret[c] = "DatabaseError")
         /\ \E d \in Callers \ {c} : CanCall(d))
           => ~ (/\ matches[obj[c].id].status = "accepted"
                 /\ matches[rev[c].id].status = "pending")

\* Rows between a and b in either direction.
Between(a, b) == Directed(a, b) \cup Directed(b, a)

JustCreated(c) == pc[c] = "done" /\ op[c] = "create" /\ ret[c] = "Match"

C9_NoSelfMatch == \A i \in Ids : matches[i].dog_from # matches[i].dog_to

\* C10: there is at most one row for each ordered pair (dog_from, dog_to).
C10_UniquePair ==
    \A i, j \in Ids :
        (matches[i].dog_from = matches[j].dog_from /\ matches[i].dog_to = matches[j].dog_to)
            => i = j

\* C10 witness: the table has refused a second row for an ordered pair.
C10_Witness ==
    \E c \in Callers :
        /\ pc[c] = "done" /\ op[c] = "create" /\ ret[c] = "IntegrityError"
        /\ Directed(arg[c][1], arg[c][2]) # {}

\* C11: decline_match on a pending match returns True and sets that record,
\* and no other, to declined: the reverse match, pending or not, and every
\* other record keep their status.
C11_DeclineOnlyGiven ==
    [][\A c \in Callers :
          (obj[c].status = "pending" /\ DeclineMatch(c))
          => /\ pc'[c] = "done"
             /\ ret'[c] = "True"
             /\ matches' = [matches EXCEPT ![obj[c].id].status = "declined"]]_vars

\* A pending match has been declined while its reverse match is pending.
C11_Witness ==
    \E c \in Callers :
        /\ pc[c] = "done" /\ op[c] = "decline" /\ ret[c] = "True"
        /\ matches[obj[c].id].status = "declined"
        /\ HasPendingReverse(obj[c].id)

\* The from-profile of a create_match_for_user call is refused for the user.
FromRefused(user, from_id) ==
    ~ ActiveDog(from_id) \/ dogs[from_id].owner # user

\* What create_match_for_user(user, from_id, to_id) must do when it fails:
\* PermissionDenied for a refused from-profile, for from_id = to_id and for
\* two profiles of one owner; DoesNotExist for a missing or inactive
\* to-profile; nothing is written in either case.
CreateForUserFailures(c) ==
    \A user \in Users :
        LET from_id == arg'[c][1]
            to_id == arg'[c][2]
        IN  (op'[c] = "create" /\ CreateMatchForUser(c, user, from_id, to_id))
            => IF FromRefused(user, from_id) \/ from_id = to_id
               THEN pc'[c] = "done" /\ ret'[c] = "PermissionDenied" /\ matches' = matches
               ELSE IF ~ ActiveDog(to_id)
               THEN pc'[c] = "done" /\ ret'[c] = "DoesNotExist" /\ matches' = matches
               ELSE IF dogs[to_id].owner = dogs[from_id].owner
               THEN pc'[c] = "done" /\ ret'[c] = "PermissionDenied" /\ matches' = matches
               ELSE ret'[c] \in {"Match", "none"}

\* The create call of caller c completes in this step and returns a match.
CreateReturns(c) ==
    /\ pc[c] # "done" \/ op[c] # "create" \/ arg[c] # arg'[c] \/ ret[c] # ret'[c]
    /\ pc'[c] = "done" /\ op'[c] = "create" /\ ret'[c] = "Match"

C13_OwnerOnly ==
    [][\A c \in Callers, user \in Users :
          /\ (AcceptMatchForUser(c, user) /\ ~ OwnsMatch(user, obj[c].id))
             => pc'[c] = "done" /\ ret'[c] = "PermissionDenied" /\ matches' = matches
          /\ (DeclineMatchForUser(c, user) /\ ~ OwnsMatch(user, obj[c].id))
             => pc'[c] = "done" /\ ret'[c] = "PermissionDenied" /\ matches' = matches
          /\ (DeclineMatchForUser(c, user) /\ OwnsMatch(user, obj[c].id)
                /\ obj[c].status = "pending")
             => /\ pc'[c] = "done" /\ ret'[c] = "True"
                /\ matches'[obj[c].id].status = "declined"
          /\ (AcceptMatchForUser(c, user) /\ OwnsMatch(user, obj[c].id)
                /\ obj[c].status = "pending")
             => pc'[c] = "acc_save"
          /\ (pc[c] = "acc_save" /\ pc'[c] # "acc_save")
             => /\ pc'[c] = "done" /\ ret'[c] = "True"
                /\ matches'[obj[c].id].status = "accepted"]_vars

\* A user who owns neither end of a pending match has been refused.
C13_Witness ==
    \E c \in Callers :
        /\ pc[c] = "done" /\ op[c] = "accept" /\ ret[c] = "PermissionDenied"
        /\ matches[obj[c].id].status = "pending"

\* The scorer has just been called (ScoreBegin has read the two primary keys).
ScoreCalled == calc.pc = "idle" /\ calc'.pc # "idle"

\* C14: for every profile P, calculate_dog_compatibility_score(P, P) = 0:
\* a call with twice the same profile returns 0 at once, reading no attribute.
C14_SelfScoreZero ==
    [][(ScoreCalled /\ calc'.in1 = calc'.in2)
       => (calc'.pc = "done" /\ calc'.score = 0)]_vars

\* The scorer has returned 0 for a profile compared with itself.
C14_Witness ==
    calc.pc = "done" /\ calc.score = 0 /\ calc.in1 = calc.in2 /\ calc.in1 \in Dogs

\* C15: for all pairs of profiles, 0 <= score <= 100.
C15_ScoreInRange ==
    calc.pc = "done" => (0 <= calc.score /\ calc.score <= Points(100))

\* The scorer has returned 100 for two distinct profiles whose temperament
\* step alone exceeds its 15 points.
C15_Witness ==
    /\ calc.pc = "done"
    /\ calc.score = Points(100)
    /\ calc.temperament_score > Points(15)

\* C16: the returned score is always a whole number of points (an even
\* number of half points).
C16_ScoreIsInteger ==
    calc.pc = "done" => calc.score % 2 = 0

\* The sub-scores as the tables of the specification give them, in points.
TableAge(age1, age2) ==
    LET d == IF age1 >= age2 THEN age1 - age2 ELSE age2 - age1
    IN  IF d <= 1 THEN 25 ELSE IF d <= 3 THEN 20 ELSE IF d <= 5 THEN 15
        ELSE IF d <= 8 THEN 10 ELSE 5

TableSize(size1, size2) ==
    IF size1 = size2 THEN 20
    ELSE IF {size1, size2} \in {{"S", "M"}, {"M", "L"}} THEN 15
    ELSE 5

TableGender(gender1, gender2) == IF gender1 # gender2 THEN 15 ELSE 10

TableGoal(goal1, goal2) ==
    IF goal1 = goal2 THEN 20
    ELSE IF {goal1, goal2} \subseteq {"playmate", "companion", "friendship"} THEN 15
    ELSE 10

TableBreed(breed1, breed2) == IF Lower(breed1) = Lower(breed2) THEN 5 ELSE 0

\* The canonical tags of a text: the keywords that occur in it.
Tags(text) == {k \in DOMAIN temperament_keywords : k \in {Lower(w) : w \in text}}

\* Temperament in half points: 7.5 points per tag the two texts share, 5 per
\* ordered pair of different tags among friendly and energetic.
TableTemperament(text1, text2) ==
    15 * Cardinality(Tags(text1) \cap Tags(text2))
    + 10 * Cardinality({p \in Tags(text1) \X Tags(text2) :
                          /\ p[1] # p[2]
                          /\ {p[1], p[2]} = {"druzhelyubnyy", "energichnyy"}})

\* C17: for distinct profiles every step adds the sub-score of the tables
\* (age, size, gender, goal, breed, temperament) and the result is
\* min(100, sum + min(15, temperament)).  The sum before the temperament step
\* is 85 exactly when the ages differ by at most 1 and size, goal and breed
\* are the same and the genders differ; with a shared tag the score is then
\* at least 80.
C17_ScoreFormula ==
    [][/\ (ScoreCalled /\ calc'.in1 # calc'.in2)
          => (calc'.pc = "age" /\ calc'.score = 0)
       /\ (calc.pc = "age" /\ calc'.pc = "size")
          => calc'.score = calc.score + Points(TableAge(calc'.in1, calc'.in2))
       /\ (calc.pc = "size" /\ calc'.pc = "gender")
          => calc'.score = calc.score + Points(TableSize(calc'.in1, calc'.in2))
       /\ (calc.pc = "gender" /\ calc'.pc = "goal")
          => calc'.score = calc.score + Points(TableGender(calc'.in1, calc'.in2))
       /\ (calc.pc = "goal" /\ calc'.pc = "breed")
          => calc'.score = calc.score + Points(TableGoal(calc'.in1, calc'.in2))
       /\ (calc.pc = "breed" /\ calc'.pc = "temperament")
          => calc'.score = calc.score + Points(TableBreed(calc'.in1, calc'.in2))
       /\ (calc.pc = "temperament" /\ calc'.pc = "total")
          => /\ calc'.temperament_score = TableTemperament(calc'.in1, calc'.in2)
             /\ calc'.score = calc.score
       /\ (calc.pc = "total" /\ calc'.pc = "done")
          => /\ calc'.score =
                   Min(Points(100),
                       calc.score + Min(Points(15), calc.temperament_score))
             /\ (calc.score = Points(85) /\ Tags(calc.in1) \cap Tags(calc.in2) # {})
                => calc'.score >= Points(80)]_vars

\* The scorer has returned 92.5 for two profiles of equal age, size, goal and
\* breed, of different gender and with exactly one shared temperament tag.
C17_Witness ==
    /\ calc.pc = "done"
    /\ calc.score = Points(85) + 15
    /\ calc.temperament_score = 15
    /\ Cardinality(Tags(calc.in1) \cap Tags(calc.in2)) = 1

\* A surface form of the canonical tag occurs in the text.
HasSurfaceForm(tag, text) ==
    \E w \in text : Lower(w) \in temperament_keywords[tag]

\* C18: a canonical tag counts as present when the text holds any of its
\* surface forms, so two texts that each hold a surface form of the same tag
\* get the 7.5 points of an identical pair.
C18_SynonymsCount ==
    [][(calc.pc = "temperament" /\ calc'.pc = "total")
       => \A tag \in DOMAIN temperament_keywords :
             (HasSurfaceForm(tag, calc'.in1) /\ HasSurfaceForm(tag, calc'.in2))
             => calc'.temperament_score >= Points(15) \div 2]_vars

\* The profiles a completed search returned.
Returned == {find.result[i] : i \in DOMAIN find.result}

\* C19: get_compatible_dogs(Q) never returns Q itself, an inactive profile
\* or a profile of Q's owner, and with exclude_matches=True never a profile
\* that has a match with Q in either direction, whatever its status.
C19_NeverReturned ==
    find.pc = "done"
    => \A d \in Returned :
          /\ d # find.user_dog
          /\ dogs[d].is_active
          /\ dogs[d].owner # dogs[find.user_dog].owner
          /\ find.exclude_matches => Between(find.user_dog, d) = {}

\* A search with exclude_matches=True has returned a profile and left out an
\* active profile of another owner that had sent a match to Q.
C19_Witness ==
    /\ find.pc = "done"
    /\ find.exclude_matches
    /\ find.result # << >>
    /\ \E i \in Ids :
          /\ matches[i].dog_to = find.user_dog
          /\ dogs[matches[i].dog_from].is_active
          /\ matches[i].dog_from \notin Returned

\* The place of profile d in the listing of the profile store.
ListedAt(d) ==
    CHOOSE i \in 1..Cardinality(DOMAIN dogs) : Listing(DOMAIN dogs)[i] = d

\* C20: the list returned by get_compatible_dogs(Q) is in descending order
\* of score against Q, and profiles of equal score are in the order in
\* which the profile store lists them.
C20_SortedStable ==
    find.pc = "done"
    => \A i, j \in DOMAIN find.result :
          i < j =>
            LET si == calculate_dog_compatibility_score(find.user_dog, find.result[i])
                sj == calculate_dog_compatibility_score(find.user_dog, find.result[j])
            IN  /\ si >= sj
                /\ si = sj => ListedAt(find.result[i]) < ListedAt(find.result[j])

\* A search has returned, first and second, two profiles of equal score.
C20_Witness ==
    /\ find.pc = "done"
    /\ Len(find.result) >= 2
    /\ calculate_dog_compatibility_score(find.user_dog, find.result[1])
       = calculate_dog_compatibility_score(find.user_dog, find.result[2])

\* The search has returned for query profile q.
Searched(q) == find.pc = "done" /\ find.user_dog = q

\* The age of profile d lies in the window of query profile q.
InAgeWindow(q, d) ==
    /\ dogs[d].age >= (IF dogs[q].age > 10 THEN dogs[q].age - 10 ELSE 0)
    /\ dogs[d].age <= dogs[q].age + 10

\* Profile d passes every filter of the search of q but the age filter.
PassesOtherFilters(q, d) ==
    /\ dogs[d].is_active
    /\ d # q
    /\ dogs[d].owner # dogs[q].owner
    /\ find.exclude_matches => Between(q, d) = {}

\* C21: every profile get_compatible_dogs(Q) returns has its age in
\* [max(0, Q.age - 10), Q.age + 10], and a profile whose age lies in that
\* window is not dropped by the age filter: if it passes the other filters
\* and reaches the threshold, it is returned.
C21_AgeWindow ==
    \A q \in DOMAIN dogs : Searched(q) =>
        /\ \A d \in Returned : InAgeWindow(q, d)
        /\ \A d \in DOMAIN dogs :
              /\ PassesOtherFilters(q, d)
              /\ InAgeWindow(q, d)
              /\ calculate_dog_compatibility_score(q, d) >= Points(30)
              => d \in Returned

\* A search of a profile of 15 years: the profile of 3 years of another owner
\* is left out, the profile of 6 years is returned.
C21_Witness ==
    \E q \in DOMAIN dogs : \E young, near \in DOMAIN dogs :
        /\ Searched(q)
        /\ dogs[q].age = 15
        /\ PassesOtherFilters(q, young) /\ dogs[young].age = 3
        /\ young \notin Returned
        /\ PassesOtherFilters(q, near) /\ dogs[near].age = 6
        /\ near \in Returned

\* Callers c and e have both returned from create_match on the same two
\* profiles, in the same or in opposite directions.
BothCreated(c, e) ==
    /\ c # e
    /\ pc[c] = "done" /\ op[c] = "create"
    /\ pc[e] = "done" /\ op[e] = "create"
    /\ arg[c][1] # arg[c][2]
    /\ {arg[c][1], arg[c][2]} = {arg[e][1], arg[e][2]}

\* C25: when two create_match calls on the same two profiles interleave, both
\* complete without error, both return the same record, and the store holds
\* exactly one match between the two profiles.
C25_RaceIsSafe ==
    \A c, e \in Callers : BothCreated(c, e) =>
        /\ ret[c] = "Match" /\ ret[e] = "Match"
        /\ obj[c].id = obj[e].id
        /\ Cardinality(Between(arg[c][1], arg[c][2])) = 1

\* Profile d passes every filter of the search of q.
PassesFilters(q, d) == PassesOtherFilters(q, d) /\ InAgeWindow(q, d)

\* C22: every profile get_compatible_dogs(Q) returns scores at least 30
\* against Q, and every profile that passes the active, self, owner, age and
\* existing-match filters and scores at least 30 is returned.
C22_Threshold ==
    \A q \in DOMAIN dogs : Searched(q) =>
        /\ \A d \in Returned :
              calculate_dog_compatibility_score(q, d) >= Points(30)
        /\ \A d \in DOMAIN dogs :
              /\ PassesFilters(q, d)
              /\ calculate_dog_compatibility_score(q, d) >= Points(30)
              => d \in Returned

\* A search that returned a profile scoring exactly 30 and one scoring more.
C22_Witness ==
    \E q \in DOMAIN dogs : \E d, e \in Returned :
        /\ Searched(q)
        /\ calculate_dog_compatibility_score(q, d) = Points(30)
        /\ calculate_dog_compatibility_score(q, e) > Points(30)

\* C27: two distinct profiles score at least 30, so the threshold of
\* get_compatible_dogs removes no candidate: the result is exactly the set of
\* profiles that pass the active, not-self, different-owner, age-window and
\* (optional) existing-match filters.
C27_ThresholdRemovesNothing ==
    /\ \A d, e \in DOMAIN dogs :
          d # e => calculate_dog_compatibility_score(d, e) >= Points(30)
    /\ \A q \in DOMAIN dogs : Searched(q) =>
          Returned = {d \in DOMAIN dogs : PassesFilters(q, d)}

\* A search whose query profile has a candidate at the minimum: 5 for the
\* ages, 5 for the sizes, 10 for the genders, 10 for the goals, nothing else.
C27_Witness ==
    \E q \in DOMAIN dogs : \E d \in DOMAIN dogs :
        /\ Searched(q)
        /\ PassesFilters(q, d)
        /\ AgeScore(dogs[q].age, dogs[d].age) = Points(5)
        /\ size_compatibility(dogs[q].size, dogs[d].size) = Points(5)
        /\ GenderScore(dogs[q].gender, dogs[d].gender) = Points(10)
        /\ compatible_goals(dogs[q].looking_for, dogs[d].looking_for) = Points(10)
        /\ calculate_dog_compatibility_score(q, d) = Points(30)
        /\ d \in Returned

\* C26: the score is symmetric: every part of the sum, the temperament
\* sub-score before and after the clamp included, is the same when the two
\* profiles change places, and so is the self-comparison test.
C26_Symmetric ==
    [][/\ ScoreCalled
          => (calc'.pc = "done" <=> SameDog(calc'.in2, calc'.in1))
       /\ (calc.pc = "age" /\ calc'.pc = "size")
          => calc'.score - calc.score = AgeScore(calc'.in2, calc'.in1)
       /\ (calc.pc = "size" /\ calc'.pc = "gender")
          => calc'.score - calc.score = size_compatibility(calc'.in2, calc'.in1)
       /\ (calc.pc = "gender" /\ calc'.pc = "goal")
          => calc'.score - calc.score = GenderScore(calc'.in2, calc'.in1)
       /\ (calc.pc = "goal" /\ calc'.pc = "breed")
          => calc'.score - calc.score = compatible_goals(calc'.in2, calc'.in1)
       /\ (calc.pc = "breed" /\ calc'.pc = "temperament")
          => calc'.score - calc.score = BreedScore(calc'.in2, calc'.in1)
       /\ (calc.pc = "temperament" /\ calc'.pc = "total")
          => calc'.temperament_score = TemperamentScore(calc'.in2, calc'.in1)
       /\ (calc.pc = "total" /\ calc'.pc = "done")
          => calc'.score =
                Min(calc.score + Min(TemperamentScore(calc.in2, calc.in1),
                                     Points(15)),
                    max_score)]_vars

\* The loops have run over two different texts, one friendly and one
\* energetic, and counted the affinity of the two words once.
C26_Witness ==
    /\ calc.pc = "total"
    /\ calc.in1 # calc.in2
    /\ Tags(calc.in1) = {"druzhelyubnyy"}
    /\ Tags(calc.in2) = {"energichnyy"}
    /\ calc.temperament_score = Points(5)

\* Profile a is in the list get_compatible_dogs(b, exclude_matches=True)
\* returns in the present store.
FoundBy(b, a) ==
    \E i \in DOMAIN get_compatible_dogs(b, TRUE) :
        get_compatible_dogs(b, TRUE)[i] = a

\* C30 as stated: for all profiles A and B, B is in
\* get_compatible_dogs(A, exclude_matches=True) if and only if A is in
\* get_compatible_dogs(B, exclude_matches=True), also when the query profile
\* is inactive.
C30_Symmetric ==
    \A a \in DOMAIN dogs : (Searched(a) /\ find.exclude_matches) =>
        \A b \in DOMAIN dogs : b \in Returned <=> FoundBy(b, a)

\* C30 amended: for all active profiles A and B, B is in
\* get_compatible_dogs(A, exclude_matches=True) if and only if A is in
\* get_compatible_dogs(B, exclude_matches=True).
C30_SymmetricActive ==
    \A a \in DOMAIN dogs :
        (Searched(a) /\ find.exclude_matches /\ dogs[a].is_active) =>
            \A b \in DOMAIN dogs :
                dogs[b].is_active => (b \in Returned <=> FoundBy(b, a))

\* The search of an active profile has returned one active profile of another
\* owner and left out another one because of a match that the other profile
\* sent.
C30_Witness ==
    \E a \in DOMAIN dogs : \E b, e \in DOMAIN dogs :
        /\ Searched(a) /\ find.exclude_matches /\ dogs[a].is_active
        /\ dogs[b].is_active /\ b \in Returned /\ FoundBy(b, a)
        /\ dogs[e].is_active /\ dogs[e].owner # dogs[a].owner
        /\ Directed(e, a) # {} /\ Directed(a, e) = {}
        /\ e \notin Returned /\ ~ FoundBy(e, a)

\* The number of Match rows of status st that satisfy Side.
Count(st, Side(_)) ==
    Cardinality({i \in Ids : matches[i].status = st /\ Side(i)})

\* The from-profile, the to-profile, either profile of row i is owned by the
\* user of the query.
FromOwned(i) == dogs[matches[i].dog_from].owner = query.user

ToOwned(i) == dogs[matches[i].dog_to].owner = query.user

EitherOwned(i) == FromOwned(i) \/ ToOwned(i)

\* get_match_statistics has returned.
StatisticsReturned == query.pc = "done" /\ query.call = "statistics"

\* C23: get_match_statistics(user) returns pending_sent = the pending matches
\* whose from-profile the user owns, pending_received = the pending matches
\* whose to-profile the user owns, accepted and declined = the matches of that
\* status of which the user owns either end, each record once, and total =
\* the sum of the four; for a user without profiles all five are 0.
C23_Statistics ==
    StatisticsReturned =>
        /\ query.result.pending_sent = Count("pending", FromOwned)
        /\ query.result.pending_received = Count("pending", ToOwned)
        /\ query.result.accepted = Count("accepted", EitherOwned)
        /\ query.result.declined = Count("declined", EitherOwned)
        /\ query.result.total =
              query.result.pending_sent + query.result.pending_received
              + query.result.accepted + query.result.declined
        /\ (\A d \in DOMAIN dogs : dogs[d].owner # query.user)
              => query.result = [pending_sent |-> 0, pending_received |-> 0,
                                 accepted |-> 0, declined |-> 0, total |-> 0]

\* The statistics of a user who owns one end of an accepted match and of a
\* declined match.
C23_Witness ==
    /\ StatisticsReturned
    /\ query.result.accepted = 1
    /\ query.result.declined = 1
    /\ query.result.total = 2

\* The rows of status st that have a profile of the user at one end.
InvolvedIn(user, st) ==
    {i \in Ids : /\ matches[i].status = st
                 /\ \E d \in {matches[i].dog_from, matches[i].dog_to} :
                       dogs[d].owner = user}

\* C24: get_mutual_matches(user) returns exactly the accepted matches of which
\* the user owns the from-profile or the to-profile, get_pending_matches(user)
\* exactly the pending ones; no match is in both results, and a match that is
\* accepted leaves the pending result and enters the mutual result.
C24_MutualAndPending ==
    [][/\ (query'.pc = "done" /\ query'.call = "mutual")
          => query'.result = InvolvedIn(query'.user, "accepted")
       /\ (query'.pc = "done" /\ query'.call = "pending")
          => query'.result = InvolvedIn(query'.user, "pending")
       /\ \A user \in Users :
             get_mutual_matches(user) \cap get_pending_matches(user) = {}
       /\ \A user \in Users : \A i \in get_pending_matches(user) :
             matches'[i].status = "accepted"
                => /\ i \in get_mutual_matches(user)'
                   /\ i \notin get_pending_matches(user)']_vars

\* get_mutual_matches has returned, to the owner of its to-profile, the match
\* the caller accepted; a pending match of the same user is not in the result.
C24_Witness ==
    /\ query.pc = "done" /\ query.call = "mutual"
    /\ \E i \in query.result :
          /\ obj[1] = [id |-> i, status |-> "accepted"]
          /\ dogs[matches[i].dog_to].owner = query.user
          /\ dogs[matches[i].dog_from].owner # query.user
    /\ \E j \in Ids \ query.result :
          /\ matches[j].status = "pending"
          /\ dogs[matches[j].dog_from].owner = query.user

\* The user of the query owns both profiles of row i.
BothOwned(i) == FromOwned(i) /\ ToOwned(i)

\* C28 as stated: in every state reached through create_match, accept_match
\* and decline_match the total of get_match_statistics(user) is the number of
\* distinct match records of which the user owns at least one end.
C28_TotalIsDistinct ==
    StatisticsReturned =>
        query.result.total = Cardinality({i \in Ids : EitherOwned(i)})

\* C28 amended: the total is the number of distinct match records of which
\* the user owns at least one end, plus the number of pending records of
\* which the user owns both ends.
C28_TotalCountsOwnPendingTwice ==
    StatisticsReturned =>
        query.result.total = Cardinality({i \in Ids : EitherOwned(i)})
                             + Count("pending", BothOwned)

\* The statistics of a user whose two profiles have a pending match with each
\* other: one record, a total of 2.
C28_Witness ==
    /\ StatisticsReturned
    /\ \E i \in Ids : /\ matches[i].dog_from # matches[i].dog_to
                       /\ BothOwned(i)
                       /\ matches[i].status = "pending"
    /\ Len(matches) = 1
    /\ query.result.total = 2

TypeOK ==
    /\ \A i \in Ids : /\ matches[i].dog_from \in DOMAIN dogs
                      /\ matches[i].dog_to \in DOMAIN dogs
                      /\ matches[i].status \in STATUS_CHOICES
    /\ Len(matches) <= MaxMatches
    /\ \A d \in DOMAIN dogs : dogs[d].owner = Owner(d)
    /\ calc.pc \in {"idle", "age", "size", "gender", "goal", "breed",
                    "temperament", "total", "done"}
    /\ find.pc \in {"idle", "done"}
    /\ query.pc \in {"idle", "done"}
    /\ query.call \in {"none", "mutual", "pending", "statistics"}
    /\ \A c \in Callers : pc[c] \in {"idle", "insert", "acc_save", "acc_rev", "done"}
====
